---------------------------- MODULE Spec2Model ----------------------------
(***************************************************************************)
(* Model of the ISS tracker of src/src/app.py and src/src/shared_state.py. *)
(*                                                                         *)
(* Floating-point quantities are fixed-point integers:                     *)
(*   angles           whole degrees                                        *)
(*   sines, cosines   multiples of 1/Scale                                 *)
(*   distances        whole kilometres (ranges: whole metres)              *)
(*   rates            multiples of 1/RateScale degree per second           *)
(*   timestamps       whole seconds                                        *)
(* Python's None is the empty tuple and a float v that may be None is the  *)
(* one-element tuple <<v>>.                                                *)
(***************************************************************************)
EXTENDS Integers, Sequences, FiniteSets, TLC

\* ------------------------------------------------------------------ math
\* unit of the fixed-point values of math.sin and math.cos
Scale == 10000

\* unit of a published rate: 1/RateScale degree per second
RateScale == 1000

\* 10000 * sin(d degrees), d = 0..90
SinTab ==
  << 0, 175, 349, 523, 698, 872, 1045, 1219, 1392, 1564,
     1736, 1908, 2079, 2250, 2419, 2588, 2756, 2924, 3090, 3256,
     3420, 3584, 3746, 3907, 4067, 4226, 4384, 4540, 4695, 4848,
     5000, 5150, 5299, 5446, 5592, 5736, 5878, 6018, 6157, 6293,
     6428, 6561, 6691, 6820, 6947, 7071, 7193, 7314, 7431, 7547,
     7660, 7771, 7880, 7986, 8090, 8192, 8290, 8387, 8480, 8572,
     8660, 8746, 8829, 8910, 8988, 9063, 9135, 9205, 9272, 9336,
     9397, 9455, 9511, 9563, 9613, 9659, 9703, 9744, 9781, 9816,
     9848, 9877, 9903, 9925, 9945, 9962, 9976, 9986, 9994, 9998,
     10000 >>

Abs(x) == IF x < 0 THEN -x ELSE x

Max(a, b) == IF a >= b THEN a ELSE b

Min(a, b) == IF a <= b THEN a ELSE b

\* a / b for b # 0, rounded to the nearest unit as a float quotient is
TDiv(a, b) ==
  LET q == (2 * Abs(a) + Abs(b)) \div (2 * Abs(b))
  IN  IF (a < 0) = (b < 0) THEN q ELSE -q

\* product of two fixed-point values
FMul(a, b) == TDiv(a * b, Scale)

\* math.sin(math.radians(d))
Sin(d) ==
  LET m == d % 360
      r == IF m <= 180 THEN m ELSE m - 180
  IN  (IF m <= 180 THEN 1 ELSE -1) * SinTab[(IF r <= 90 THEN r ELSE 180 - r) + 1]

\* math.cos(math.radians(d))
Cos(d) == Sin(d + 90)

\* the largest r in lo..hi with r * r <= n
SqrtBisect[n \in Nat, lo \in Nat, hi \in Nat] ==
  IF lo >= hi THEN lo
  ELSE LET mid == (lo + hi + 1) \div 2
       IN  IF mid * mid <= n THEN SqrtBisect[n, mid, hi]
           ELSE SqrtBisect[n, lo, mid - 1]

\* math.sqrt(n), rounded to the nearest unit
Sqrt(n) ==
  LET r == SqrtBisect[n, 0, Min(n, 46339)]
  IN  IF n - r * r > r THEN r + 1 ELSE r

\* the largest d in lo..hi with tan(d) <= y / x
AtanBisect[y \in Nat, x \in Nat, lo \in Nat, hi \in Nat] ==
  IF lo >= hi THEN lo
  ELSE LET mid == (lo + hi + 1) \div 2
       IN  IF Sin(mid) * x <= Cos(mid) * y THEN AtanBisect[y, x, mid, hi]
           ELSE AtanBisect[y, x, lo, mid - 1]

\* the angle of atan2 in the first quadrant, in whole degrees (rounded down)
AtanQuadrant(y, x) == AtanBisect[y, x, 0, 90]

\* math.degrees(math.atan2(y, x))
Atan2Deg(y, x) ==
  IF x = 0 /\ y = 0 THEN 0
  ELSE LET q == AtanQuadrant(Abs(y), Abs(x))
       IN  IF x >= 0 THEN (IF y >= 0 THEN q ELSE -q)
           ELSE (IF y >= 0 THEN 180 - q ELSE -(180 - q))

\* ---------------------------------------------------------------- geodesy
\* Earth radius in kilometres
R_earth == 6371

haversine_km(lat1, lon1, lat2, lon2) ==
  LET dphi == lat2 - lat1
      dlam == lon2 - lon1
      sp   == Sin(TDiv(dphi, 2))
      sl   == Sin(TDiv(dlam, 2))
      a    == sp * sp + FMul(FMul(Cos(lat1), Cos(lat2)), sl) * sl
      half == Atan2Deg(Sqrt(a), Sqrt(Scale * Scale - a))
  IN  (R_earth * (2 * half) * 355) \div (113 * 180)

\* the azimuth of atan2 as it is, without the normalisation
bearing_deg_signed(lat1, lon1, lat2, lon2) ==
  LET dlam  == lon2 - lon1
      x     == FMul(Sin(dlam), Cos(lat2))
      y     == FMul(Cos(lat1), Sin(lat2)) - FMul(FMul(Sin(lat1), Cos(lat2)), Cos(dlam))
  IN  Atan2Deg(x, y)

\* bearing_deg(lat1, lon1, lat2, lon2): initial bearing in degrees
bearing_deg(lat1, lon1, lat2, lon2) ==
  LET dlam  == lon2 - lon1
      x     == FMul(Sin(dlam), Cos(lat2))
      y     == FMul(Cos(lat1), Sin(lat2)) - FMul(FMul(Sin(lat1), Cos(lat2)), Cos(dlam))
      theta == Atan2Deg(x, y)
  IN  (theta + 360) % 360

to_cartesian(lat, lon, alt, R_base) ==
  LET radius == R_base + alt
  IN  << FMul(FMul(radius, Cos(lat)), Cos(lon)),
         FMul(FMul(radius, Cos(lat)), Sin(lon)),
         FMul(radius, Sin(lat)) >>

calculate_3d_distance_km(sat_lat, sat_lon, sat_alt_km, tgt_lat, tgt_lon, tgt_alt_km) ==
  LET p1 == to_cartesian(sat_lat, sat_lon, sat_alt_km, R_earth)
      p2 == to_cartesian(tgt_lat, tgt_lon, tgt_alt_km, R_earth)
  IN  Sqrt((p2[1] - p1[1]) * (p2[1] - p1[1]) + (p2[2] - p1[2]) * (p2[2] - p1[2])
           + (p2[3] - p1[3]) * (p2[3] - p1[3]))

\* ------------------------------------------------------------- settings
UPDATE_INTERVAL_S == 5

TARGET_INTERVAL_S == 60

PREDICTION_DURATION_MIN == 90

\* ---------------------------------------------------------------- bounds
\* positions_history holds at most MaxHist samples
MaxHist == 2

\* precompute_targets is called with window_minutes in 0..MaxWindow
MaxWindow == 3

\* time.time() returns a value in 0..MaxTime
MaxTime == 1

\* focus_angular_speeds holds at most MaxSpeeds entries
MaxSpeeds == 2

\* the server runs at most MaxHandlers request threads at a time
MaxHandlers == 2

\* ------------------------------------------------------------ Python values
None == << >>

\* a module global that no statement has bound yet
Unbound == << >>

Times == 0..MaxTime

\* ----------------------------------------------------------- the propagator
\* ground projection of the satellite t seconds after the epoch
\* (sat.at(t), wgs84.latlon_of)
latlon_of(t) == << (t \div 15) - 2, 2 * (t \div 15) - 4 >>

\* the instants at which the propagator is asked for a position
Instants == {0, 30}

\* wgs84.height_of(geo).km
height_of(t) == 400

\* the values get_sat_position can return: the satellite in orbit at one of the
\* instants, or at altitude 0 above the origin (the propagator puts no lower
\* limit on the height it returns)
SatPositions ==
  { << latlon_of(t)[1], latlon_of(t)[2], height_of(t) >> : t \in Instants }
    \cup { << 0, 0, 0 >> }

\* ----------------------------------------------------------------- state
VARIABLES
  positions_history,     \* app.positions_history
  target_points,         \* app.target_points
  generation,            \* the call that filled target_points, and its arguments
  focus_angular_speeds,  \* app.focus_angular_speeds
  prev_heading,          \* app.prev_heading
  prev_tilt,             \* app.prev_tilt
  prev_time,             \* app.prev_time
  prev_lat,              \* app.prev_lat
  prev_lon,              \* app.prev_lon
  state,                 \* shared_state.state
  written_by,            \* which request last assigned the prev_* globals
  handled,               \* the modes whose handler has reached its rate computation
  resp,                  \* what the last request returned to its caller
  pc,                    \* where each request thread is in stream_kml
  frame                  \* the local variables of each request thread

vars == << positions_history, target_points, generation, focus_angular_speeds,
           prev_heading,
           prev_tilt, prev_time, prev_lat, prev_lon, state, written_by, handled, resp,
           pc, frame >>

\* the state of the request threads
threads == << pc, frame >>

\* SharedState.__init__
SharedState ==
  [ focus_mod |-> FALSE, heading_rate |-> 0, tilt_rate |-> 0, heading |-> 0, tilt |-> 100 ]

NoRequest == << "none", 0 >>

\* target_points is the empty list of the module: no call has filled it
NoGeneration ==
  [ fn |-> "", now |-> 0, window_minutes |-> 0, max_shift_km |-> 0, shift_prob |-> 0 ]

\* no request has been served yet. Of a response: the route and the request
\* served, the status, the LookAt element, the satellite sample read, whether
\* the request was the first of its mode to reach the rate computation, delta_t,
\* the rates published, the requests that had assigned the previous observation
\* and timestamp the rates were computed from, and the JSON body
NoResponse ==
  [ route |-> "", req |-> NoRequest, status |-> "", lookat |-> << >>, sat |-> << >>,
    first |-> FALSE, delta_t |-> << >>, rates |-> << >>, used |-> << >>, body |-> << >> ]

\* the request threads of the server
Handlers == 1..MaxHandlers

\* a thread that serves no request
NoFrame == [ view |-> << >>, now |-> << >> ]

Init ==
  /\ positions_history = << >>
  /\ target_points = << >>
  /\ generation = NoGeneration
  /\ focus_angular_speeds = << >>
  /\ prev_heading = None
  /\ prev_tilt = None
  /\ prev_time = None
  /\ prev_lat = Unbound
  /\ prev_lon = Unbound
  /\ state = SharedState
  /\ written_by = [ heading |-> NoRequest, tilt |-> NoRequest, time |-> NoRequest,
                    lat |-> NoRequest, lon |-> NoRequest ]
  /\ handled = { }
  /\ resp = NoResponse
  /\ pc = [ h \in Handlers |-> "idle" ]
  /\ frame = [ h \in Handlers |-> NoFrame ]

\* ------------------------------------------------------------ shared_state
\* SharedState.set_values: an argument that is None leaves its field alone
set_values(s, focus_mod, heading_rate, tilt_rate, heading, tilt) ==
  [ focus_mod    |-> IF focus_mod # None THEN focus_mod[1] ELSE s.focus_mod,
    heading_rate |-> IF heading_rate # None THEN heading_rate[1] ELSE s.heading_rate,
    tilt_rate    |-> IF tilt_rate # None THEN tilt_rate[1] ELSE s.tilt_rate,
    heading      |-> IF heading # None THEN heading[1] ELSE s.heading,
    tilt         |-> IF tilt # None THEN tilt[1] ELSE s.tilt ]

\* SharedState.get_values
get_values(s) == << s.focus_mod, s.heading_rate, s.tilt_rate >>

\* SharedState.get_angles
get_angles(s) == << s.heading, s.tilt >>

\* ------------------------------------------------------------ the updater
\* a loop that keeps only the latest sample
satellite_updater_latest_only ==
  /\ Len(positions_history) < MaxHist
  /\ \E p \in SatPositions : positions_history' = << p >>
  /\ UNCHANGED << target_points, generation, focus_angular_speeds, prev_heading, prev_tilt,
                  prev_time,
                  prev_lat, prev_lon, state, written_by, handled, resp, threads >>

\* one turn of the loop of satellite_updater
satellite_updater ==
  /\ Len(positions_history) < MaxHist
  /\ \E p \in SatPositions : positions_history' = Append(positions_history, p)
  /\ UNCHANGED << target_points, generation, focus_angular_speeds, prev_heading, prev_tilt,
                  prev_time,
                  prev_lat, prev_lon, state, written_by, handled, resp, threads >>

\* ------------------------------------------------------------ the targets
\* steps of precompute_targets and precompute_shifted_targets
steps_of(window_minutes) == (window_minutes * 60) \div TARGET_INTERVAL_S

RECURSIVE TrackFrom(_, _, _)
\* the points appended by the loop of precompute_targets for i = k .. steps-1
TrackFrom(now, k, steps) ==
  IF k >= steps THEN << >>
  ELSE << latlon_of(now + k * TARGET_INTERVAL_S) >> \o TrackFrom(now, k + 1, steps)

\* the main program fills target_points before it starts the updater thread and
\* the server
starting ==
  positions_history = << >> /\ resp = NoResponse /\ \A h \in Handlers : pc[h] = "idle"

\* a call that appends to the list without target_points.clear()
precompute_targets_appending ==
  /\ starting
  /\ \E window_minutes \in 0..MaxWindow, now \in Instants :
       /\ Len(target_points) + steps_of(window_minutes) <= MaxWindow
       /\ target_points' = target_points \o TrackFrom(now, 0, steps_of(window_minutes))
       /\ generation' = [ fn |-> "precompute_targets", now |-> now,
                          window_minutes |-> window_minutes, max_shift_km |-> 0,
                          shift_prob |-> 0 ]
  /\ UNCHANGED << positions_history, focus_angular_speeds, prev_heading, prev_tilt,
                  prev_time, prev_lat, prev_lon, state, written_by, handled, resp, threads >>

\* precompute_targets(window_minutes)
precompute_targets ==
  /\ starting
  /\ \E window_minutes \in 0..MaxWindow, now \in Instants :
       /\ target_points' = TrackFrom(now, 0, steps_of(window_minutes))
       /\ generation' = [ fn |-> "precompute_targets", now |-> now,
                          window_minutes |-> window_minutes, max_shift_km |-> 0,
                          shift_prob |-> 0 ]
  /\ UNCHANGED << positions_history, focus_angular_speeds, prev_heading, prev_tilt,
                  prev_time, prev_lat, prev_lon, state, written_by, handled, resp, threads >>

\* what random.random() can return, in hundredths
RandomValues == {0, 95}

\* the arguments precompute_shifted_targets is called with: its defaults and
\* those of the main program; shift_prob is in hundredths
ShiftArgs ==
  { [ max_shift_km |-> 0, shift_prob |-> 0 ], [ max_shift_km |-> 200, shift_prob |-> 0 ],
    [ max_shift_km |-> 200, shift_prob |-> 90 ] }

\* the outcomes of the random source for one point of the loop
RandomDraws(max_shift_km) ==
  [ shift : RandomValues, direction : {-90, 90}, shift_km : {0, max_shift_km},
    left : RandomValues ]

\* math.degrees(d_lat) and math.degrees(d_lon) of precompute_shifted_targets
shift_deg(lat, bearing, direction, shift_km) ==
  LET shift_angle == (bearing + direction) % 360
      arc         == TDiv(shift_km * 180 * 113, 355)
  IN  << TDiv(arc * Cos(shift_angle), R_earth * Scale),
         TDiv(TDiv(TDiv(arc * Sin(shift_angle), R_earth) * Scale, Cos(lat)), Scale) >>

\* a turn of the loop that also shifts when random.random() equals shift_prob
shifted_point_inclusive(p, prev, max_shift_km, shift_prob, draw) ==
  IF prev # None /\ draw.shift <= shift_prob /\ max_shift_km > 0
  THEN LET bearing == bearing_deg(prev[1][1], prev[1][2], p[1], p[2])
           d       == shift_deg(p[1], bearing, draw.direction, draw.shift_km)
       IN  IF draw.left < 50 THEN << p[1] - d[1], p[2] - d[2] >>
           ELSE << p[1] + d[1], p[2] + d[2] >>
  ELSE p

\* the point appended by one turn of the loop of precompute_shifted_targets
shifted_point(p, prev, max_shift_km, shift_prob, draw) ==
  IF prev # None /\ draw.shift < shift_prob /\ max_shift_km > 0
  THEN LET bearing == bearing_deg(prev[1][1], prev[1][2], p[1], p[2])
           d       == shift_deg(p[1], bearing, draw.direction, draw.shift_km)
       IN  IF draw.left < 50 THEN << p[1] - d[1], p[2] - d[2] >>
           ELSE << p[1] + d[1], p[2] + d[2] >>
  ELSE p

RECURSIVE ShiftedFrom(_, _, _, _, _, _, _)
\* the points appended by the loop of precompute_shifted_targets for
\* i = k .. steps-1, the random source giving draws[i] at turn i >= 1
ShiftedFrom(now, k, steps, prev, max_shift_km, shift_prob, draws) ==
  IF k >= steps THEN << >>
  ELSE LET q == shifted_point(latlon_of(now + k * TARGET_INTERVAL_S), prev, max_shift_km,
                              shift_prob, IF k >= 1 THEN draws[k] ELSE << >>)
       IN  << q >> \o ShiftedFrom(now, k + 1, steps, << q >>, max_shift_km, shift_prob,
                                  draws)

\* precompute_shifted_targets(window_minutes, max_shift_km, shift_prob)
precompute_shifted_targets ==
  /\ starting
  /\ \E window_minutes \in 0..MaxWindow, now \in Instants, args \in ShiftArgs :
       \E draws \in [ 1..(steps_of(window_minutes) - 1) -> RandomDraws(args.max_shift_km) ] :
         /\ target_points' = ShiftedFrom(now, 0, steps_of(window_minutes), None,
                                         args.max_shift_km, args.shift_prob, draws)
         /\ generation' = [ fn |-> "precompute_shifted_targets", now |-> now,
                            window_minutes |-> window_minutes,
                            max_shift_km |-> args.max_shift_km,
                            shift_prob |-> args.shift_prob ]
  /\ UNCHANGED << positions_history, focus_angular_speeds, prev_heading, prev_tilt,
                  prev_time, prev_lat, prev_lon, state, written_by, handled, resp, threads >>

\* ------------------------------------------------------------ /live.kml
RECURSIVE MinScanLast(_, _, _, _, _)
\* a scan that also replaces the element found so far by a later one with an
\* equal key
MinScanLast(sat_lat, sat_lon, targets, i, best) ==
  IF i > Len(targets) THEN best
  ELSE IF haversine_km(sat_lat, sat_lon, targets[i][1], targets[i][2])
            <= haversine_km(sat_lat, sat_lon, best[1], best[2])
       THEN MinScanLast(sat_lat, sat_lon, targets, i + 1, targets[i])
       ELSE MinScanLast(sat_lat, sat_lon, targets, i + 1, best)

RECURSIVE MinScan(_, _, _, _, _)
\* min(target_points, key=haversine_km to the satellite): the scan keeps the
\* element found so far unless a later one has a strictly smaller key
MinScan(sat_lat, sat_lon, targets, i, best) ==
  IF i > Len(targets) THEN best
  ELSE IF haversine_km(sat_lat, sat_lon, targets[i][1], targets[i][2])
            < haversine_km(sat_lat, sat_lon, best[1], best[2])
       THEN MinScan(sat_lat, sat_lon, targets, i + 1, targets[i])
       ELSE MinScan(sat_lat, sat_lon, targets, i + 1, best)

nearest_target(sat_lat, sat_lon, targets) ==
  MinScan(sat_lat, sat_lon, targets, 2, targets[1])

\* lookat_range_m of stream_kml
lookat_range_m(sat, tgt) ==
  calculate_3d_distance_km(sat[1], sat[2], sat[3], tgt[1], tgt[2], 0) * 1000

\* elev_deg of stream_kml
elev_deg(sat_alt_km, dist_km) ==
  IF dist_km # 0 THEN Atan2Deg(sat_alt_km, dist_km) ELSE 90

\* a tilt measured from the horizon upwards, without the clamp
tilt_deg_unclamped(sat_alt_km, dist_km) == 90 + elev_deg(sat_alt_km, dist_km)

\* tilt of stream_kml
tilt_deg(sat_alt_km, dist_km) ==
  Max(0, Min(90, 90 - elev_deg(sat_alt_km, dist_km)))

\* steps 3 and 4 of stream_kml: the camera view from the satellite to the
\* target tgt at horizontal distance dist_km
view_of(sat, tgt, dist_km) ==
  [ tgt     |-> tgt,
    dist_km |-> dist_km,
    range_m |-> lookat_range_m(sat, tgt),
    heading |-> bearing_deg(sat[1], sat[2], tgt[1], tgt[2]),
    tilt    |-> tilt_deg(sat[3], dist_km) ]

\* steps 1 and 2 of stream_kml: the view to the target at hand
view_to(sat, tgt) == view_of(sat, tgt, haversine_km(sat[1], sat[2], tgt[1], tgt[2]))

\* steps 1 to 4 of stream_kml: the camera view from the satellite to the
\* nearest target
camera_view(sat, targets) == view_to(sat, nearest_target(sat[1], sat[2], targets))

\* every value target_points can take
TargetSets ==
  { TrackFrom(now, 0, steps_of(w)) : w \in 0..MaxWindow, now \in Instants }
    \cup UNION { { ShiftedFrom(c[2], 0, steps_of(c[1]), None, c[3].max_shift_km,
                               c[3].shift_prob, draws) :
                     draws \in [ 1..(steps_of(c[1]) - 1) -> RandomDraws(c[3].max_shift_km) ] } :
                 c \in (0..MaxWindow) \X Instants \X ShiftArgs }

\* camera_view, evaluated once for every satellite position and target set
CameraViews ==
  [ sat \in SatPositions, targets \in TargetSets \ { << >> } |-> camera_view(sat, targets) ]

\* angular_speed_deg of stream_kml from the sample p1 to the sample sat, in
\* 1/RateScale degree per second
angular_speed_deg(p1, sat) ==
  LET km    == haversine_km(p1[1], p1[2], sat[1], sat[2])
      angle == TDiv(TDiv(km * 180 * 113, 355), R_earth)
  IN  TDiv(angle * RateScale, UPDATE_INTERVAL_S)

\* angular_speed_deg, evaluated once for every pair of samples
AngularSpeeds == [ p1 \in SatPositions, sat \in SatPositions |-> angular_speed_deg(p1, sat) ]

\* delta / delta_t of the two handlers, in 1/RateScale degree per second
rate(delta, delta_t) == TDiv(delta * RateScale, delta_t)

\* an empty response that also forgets the stored time of the previous request
no_content_resetting(route, req) ==
  /\ resp' = [ NoResponse EXCEPT !.route = route, !.req = req, !.status = "204" ]
  /\ prev_time' = None
  /\ UNCHANGED << positions_history, target_points, generation, focus_angular_speeds,
                  prev_heading, prev_tilt, prev_lat, prev_lon, state,
                  written_by, handled, threads >>

\* return Response("", status=204) of the two KML handlers: nothing to show yet
no_content(route, req) ==
  /\ resp' = [ NoResponse EXCEPT !.route = route, !.req = req, !.status = "204" ]
  /\ UNCHANGED << positions_history, target_points, generation, focus_angular_speeds,
                  prev_heading, prev_tilt, prev_time, prev_lat, prev_lon, state,
                  written_by, handled, threads >>

\* stream_kml from step 5 on: the satellite is at `sat`, the camera looks at
\* `view`, the angular speed is `speed`, and the request is `req`, served on
\* `route`
stream_kml_track(route, req, sat, view, speed, lookat) ==
  /\ Len(focus_angular_speeds) < MaxSpeeds
  /\ focus_angular_speeds' = Append(focus_angular_speeds, speed)
  /\ handled' = handled \cup { req[1] }
  /\ \E now \in Times :
       IF prev_heading # None /\ prev_tilt # None /\ prev_time # None
       THEN IF now - prev_time[1] = 0
            THEN \* delta_heading / delta_t raises ZeroDivisionError
                 /\ resp' = [ NoResponse EXCEPT !.route = route, !.req = req,
                                                !.status = "ZeroDivisionError",
                                                !.sat = sat,
                                                !.first = req[1] \notin handled,
                                                !.delta_t = << now - prev_time[1] >> ]
                 /\ UNCHANGED << prev_heading, prev_tilt, prev_time, state, written_by >>
            ELSE /\ state' =
                      set_values(state, None,
                                 << rate(Abs(view.heading - prev_heading[1]),
                                         now - prev_time[1]) >>,
                                 << rate(Abs(view.tilt - prev_tilt[1]),
                                         now - prev_time[1]) >>,
                                 << view.heading >>, << view.tilt >>)
                 /\ resp' = [ NoResponse EXCEPT
                                !.route = route, !.req = req, !.status = "200",
                                !.lookat = lookat, !.sat = sat,
                                !.first = req[1] \notin handled,
                                !.delta_t = << now - prev_time[1] >>,
                                !.rates = << state'.heading_rate, state'.tilt_rate >>,
                                !.used = << written_by.heading, written_by.tilt,
                                            written_by.time >> ]
                 /\ prev_heading' = << view.heading >>
                 /\ prev_tilt' = << view.tilt >>
                 /\ prev_time' = << now >>
                 /\ written_by' = [ written_by EXCEPT !.heading = req, !.tilt = req,
                                                      !.time = req ]
       ELSE /\ state' = state
            /\ resp' = [ NoResponse EXCEPT !.route = route, !.req = req, !.status = "200",
                                           !.lookat = lookat, !.sat = sat,
                                           !.first = req[1] \notin handled ]
            /\ prev_heading' = << view.heading >>
            /\ prev_tilt' = << view.tilt >>
            /\ prev_time' = << now >>
            /\ written_by' = [ written_by EXCEPT !.heading = req, !.tilt = req,
                                                 !.time = req ]
  /\ UNCHANGED << positions_history, target_points, generation, prev_lat, prev_lon, threads >>

\* a LookAt element whose heading is averaged with the heading stored by the
\* previous request
lookat_of_smoothed(view) ==
  << view.tgt[2], view.tgt[1], view.range_m, view.tilt,
     IF prev_heading # None THEN (view.heading + prev_heading[1]) \div 2 ELSE view.heading >>

\* the LookAt element of stream_kml: longitude, latitude, range, tilt, heading
lookat_of(view) == << view.tgt[2], view.tgt[1], view.range_m, view.tilt, view.heading >>

\* the sample before the last one, or the last one when there is no other
sample_before(history) ==
  IF Len(history) >= 2 THEN history[Len(history) - 1] ELSE history[Len(history)]

\* the body of stream_kml, serving `route` as request `req`
stream_kml_body(route, req) ==
  IF positions_history = << >> \/ target_points = << >>
  THEN no_content(route, req)
  ELSE stream_kml_track(
         route, req, positions_history[Len(positions_history)],
         CameraViews[positions_history[Len(positions_history)], target_points],
         AngularSpeeds[sample_before(positions_history),
                       positions_history[Len(positions_history)]],
         lookat_of(CameraViews[positions_history[Len(positions_history)], target_points]))

\* GET /live.kml
stream_kml == stream_kml_body("/live.kml", << "focus", 0 >>)

\* ------------------------------------------------------------ /orbit.kml
\* stream_kml_orbit_only once there are two samples: the satellite is at `sat`
\* and the request is `req`, served on `route`
stream_kml_orbit_only_track(route, req, sat, lookat) ==
  /\ handled' = handled \cup { req[1] }
  /\ \E now \in Times :
       IF prev_time # None
       THEN IF prev_lon = Unbound \/ prev_lat = Unbound
            THEN \* abs(sat_lon - prev_lon) raises NameError: no statement has bound
                 \* the global yet
                 /\ resp' = [ NoResponse EXCEPT !.route = route, !.req = req,
                                                !.status = "NameError", !.sat = sat,
                                                !.first = req[1] \notin handled,
                                                !.delta_t = << now - prev_time[1] >> ]
                 /\ UNCHANGED << prev_time, prev_lat, prev_lon, state, written_by >>
            ELSE IF now - prev_time[1] = 0
            THEN \* delta_heading / delta_t raises ZeroDivisionError
                 /\ resp' = [ NoResponse EXCEPT !.route = route, !.req = req,
                                                !.status = "ZeroDivisionError",
                                                !.sat = sat,
                                                !.first = req[1] \notin handled,
                                                !.delta_t = << now - prev_time[1] >> ]
                 /\ UNCHANGED << prev_time, prev_lat, prev_lon, state, written_by >>
            ELSE /\ state' =
                      set_values(state, None,
                                 << rate(Abs(sat[2] - prev_lon[1]), now - prev_time[1]) >>,
                                 << rate(Abs(sat[1] - prev_lat[1]), now - prev_time[1]) >>,
                                 << 0 >>, << 0 >>)
                 /\ resp' = [ NoResponse EXCEPT
                                !.route = route, !.req = req, !.status = "200",
                                !.lookat = lookat, !.sat = sat,
                                !.first = req[1] \notin handled,
                                !.delta_t = << now - prev_time[1] >>,
                                !.rates = << state'.heading_rate, state'.tilt_rate >>,
                                !.used = << written_by.lon, written_by.lat,
                                            written_by.time >> ]
                 /\ prev_time' = << now >>
                 /\ prev_lat' = << sat[1] >>
                 /\ prev_lon' = << sat[2] >>
                 /\ written_by' = [ written_by EXCEPT !.time = req, !.lat = req,
                                                      !.lon = req ]
       ELSE /\ state' = state
            /\ resp' = [ NoResponse EXCEPT !.route = route, !.req = req, !.status = "200",
                                           !.lookat = lookat, !.sat = sat,
                                           !.first = req[1] \notin handled ]
            /\ prev_time' = << now >>
            /\ prev_lat' = << sat[1] >>
            /\ prev_lon' = << sat[2] >>
            /\ written_by' = [ written_by EXCEPT !.time = req, !.lat = req, !.lon = req ]
  /\ UNCHANGED << positions_history, target_points, generation, focus_angular_speeds, prev_heading,
                  prev_tilt, threads >>

\* the LookAt element of stream_kml_orbit_only: longitude, latitude, range, tilt,
\* heading
orbit_lookat_of(sat) == << sat[2], sat[1], sat[3] * 1000, 0, 0 >>

\* the body of stream_kml_orbit_only, serving `route` as request `req`
stream_kml_orbit_only_body(route, req) ==
  IF Len(positions_history) < 2
  THEN no_content(route, req)
  ELSE stream_kml_orbit_only_track(
         route, req, positions_history[Len(positions_history)],
         orbit_lookat_of(positions_history[Len(positions_history)]))

\* GET /orbit.kml
stream_kml_orbit_only == stream_kml_orbit_only_body("/orbit.kml", << "orbit", 0 >>)

\* GET /dynamic.kml: the response is the one of the handler it calls
dynamic_kml ==
  IF get_values(state)[1]
  THEN stream_kml_body("/live.kml", << "focus", 0 >>)
  ELSE stream_kml_orbit_only_body("/orbit.kml", << "orbit", 0 >>)

\* ------------------------------------------------------- the status routes
\* GET /state
get_state ==
  /\ resp' = [ NoResponse EXCEPT !.route = "/state", !.status = "200",
                                 !.body = get_values(state) ]
  /\ UNCHANGED << positions_history, target_points, generation, focus_angular_speeds, prev_heading,
                  prev_tilt, prev_time, prev_lat, prev_lon, state, written_by, handled,
                  threads >>

\* the JSON bodies posted to /set_state: a key that is absent reads as None
SetStateBodies ==
  { [ focus_mod |-> << TRUE >>, heading_rate |-> None, tilt_rate |-> None ],
    [ focus_mod |-> << FALSE >>, heading_rate |-> None, tilt_rate |-> None ],
    [ focus_mod |-> None, heading_rate |-> << -RateScale >>, tilt_rate |-> << -RateScale >> ] }

\* POST /set_state
set_state ==
  \E data \in SetStateBodies :
    /\ state' = set_values(state, data.focus_mod, data.heading_rate, data.tilt_rate,
                           None, None)
    /\ resp' = [ NoResponse EXCEPT !.route = "/set_state", !.status = "200" ]
    /\ UNCHANGED << positions_history, target_points, generation, focus_angular_speeds,
                    prev_heading, prev_tilt, prev_time, prev_lat, prev_lon, written_by, handled,
                    threads >>

\* GET /angles
angles ==
  /\ resp' = [ NoResponse EXCEPT !.route = "/angles", !.status = "200",
                                 !.body = get_angles(state) ]
  /\ UNCHANGED << positions_history, target_points, generation, focus_angular_speeds, prev_heading,
                  prev_tilt, prev_time, prev_lat, prev_lon, state, written_by, handled,
                  threads >>

Next ==
  \/ satellite_updater
  \/ precompute_targets
  \/ precompute_shifted_targets
  \/ stream_kml
  \/ stream_kml_orbit_only
  \/ dynamic_kml
  \/ get_state
  \/ set_state
  \/ angles

Spec == Init /\ [][Next]_vars

\* the program with /live.kml as the only route requested
NextCamera ==
  \/ satellite_updater
  \/ precompute_targets
  \/ precompute_shifted_targets
  \/ stream_kml

SpecCamera == Init /\ [][NextCamera]_vars

\* ------------------------------------------------- concurrent request threads
\* The server runs every request in a thread of its own and stream_kml takes no
\* lock: a thread can be suspended between any two statements. The statements
\* of stream_kml that touch the globals are separate steps of thread h.

\* stream_kml up to focus_angular_speeds.append
stream_kml_enter(h) ==
  /\ pc[h] = "idle"
  /\ IF positions_history = << >> \/ target_points = << >>
     THEN /\ resp' = [ NoResponse EXCEPT !.route = "/live.kml", !.req = << "focus", h >>,
                                         !.status = "204" ]
          /\ UNCHANGED << focus_angular_speeds, threads >>
     ELSE /\ Len(focus_angular_speeds) < MaxSpeeds
          /\ focus_angular_speeds' =
               Append(focus_angular_speeds,
                      AngularSpeeds[sample_before(positions_history),
                                    positions_history[Len(positions_history)]])
          /\ frame' = [ frame EXCEPT ![h] =
               [ view |-> CameraViews[positions_history[Len(positions_history)],
                                      target_points],
                 now  |-> None ] ]
          /\ pc' = [ pc EXCEPT ![h] = "clock" ]
          /\ resp' = resp
  /\ UNCHANGED << positions_history, target_points, generation, prev_heading, prev_tilt, prev_time,
                  prev_lat, prev_lon, state, written_by, handled >>

\* now = time.time()
stream_kml_clock(h) ==
  /\ pc[h] = "clock"
  /\ \E now \in Times : frame' = [ frame EXCEPT ![h].now = << now >> ]
  /\ pc' = [ pc EXCEPT ![h] = "rate" ]
  /\ UNCHANGED << positions_history, target_points, generation, focus_angular_speeds, prev_heading,
                  prev_tilt, prev_time, prev_lat, prev_lon, state, written_by, handled,
                  resp >>

\* the if statement that computes the rates and calls state.set_values
stream_kml_rate(h) ==
  /\ pc[h] = "rate"
  /\ handled' = handled \cup { "focus" }
  /\ IF prev_heading # None /\ prev_tilt # None /\ prev_time # None
     THEN IF frame[h].now[1] - prev_time[1] = 0
          THEN /\ resp' = [ NoResponse EXCEPT !.route = "/live.kml",
                                              !.req = << "focus", h >>,
                                              !.status = "ZeroDivisionError",
                                              !.delta_t = << 0 >> ]
               /\ pc' = [ pc EXCEPT ![h] = "idle" ]
               /\ frame' = [ frame EXCEPT ![h] = NoFrame ]
               /\ state' = state
          ELSE /\ state' =
                    set_values(state, None,
                               << rate(Abs(frame[h].view.heading - prev_heading[1]),
                                       frame[h].now[1] - prev_time[1]) >>,
                               << rate(Abs(frame[h].view.tilt - prev_tilt[1]),
                                       frame[h].now[1] - prev_time[1]) >>,
                               << frame[h].view.heading >>, << frame[h].view.tilt >>)
               /\ pc' = [ pc EXCEPT ![h] = "store_heading" ]
               /\ UNCHANGED << resp, frame >>
     ELSE /\ pc' = [ pc EXCEPT ![h] = "store_heading" ]
          /\ UNCHANGED << state, resp, frame >>
  /\ UNCHANGED << positions_history, target_points, generation, focus_angular_speeds, prev_heading,
                  prev_tilt, prev_time, prev_lat, prev_lon, written_by >>

\* prev_heading = heading
stream_kml_store_heading(h) ==
  /\ pc[h] = "store_heading"
  /\ prev_heading' = << frame[h].view.heading >>
  /\ written_by' = [ written_by EXCEPT !.heading = << "focus", h >> ]
  /\ pc' = [ pc EXCEPT ![h] = "store_tilt" ]
  /\ UNCHANGED << positions_history, target_points, generation, focus_angular_speeds, prev_tilt,
                  prev_time, prev_lat, prev_lon, state, handled, resp, frame >>

\* prev_tilt = tilt
stream_kml_store_tilt(h) ==
  /\ pc[h] = "store_tilt"
  /\ prev_tilt' = << frame[h].view.tilt >>
  /\ written_by' = [ written_by EXCEPT !.tilt = << "focus", h >> ]
  /\ pc' = [ pc EXCEPT ![h] = "store_time" ]
  /\ UNCHANGED << positions_history, target_points, generation, focus_angular_speeds, prev_heading,
                  prev_time, prev_lat, prev_lon, state, handled, resp, frame >>

\* prev_time = now, and the rest of stream_kml, which returns the KML
stream_kml_store_time(h) ==
  /\ pc[h] = "store_time"
  /\ prev_time' = frame[h].now
  /\ written_by' = [ written_by EXCEPT !.time = << "focus", h >> ]
  /\ resp' = [ NoResponse EXCEPT !.route = "/live.kml", !.req = << "focus", h >>,
                                 !.status = "200", !.lookat = lookat_of(frame[h].view) ]
  /\ pc' = [ pc EXCEPT ![h] = "idle" ]
  /\ frame' = [ frame EXCEPT ![h] = NoFrame ]
  /\ UNCHANGED << positions_history, target_points, generation, focus_angular_speeds, prev_heading,
                  prev_tilt, prev_lat, prev_lon, state, handled >>

\* the updater thread and the request threads of /live.kml, interleaved
NextConc ==
  \/ precompute_targets
  \/ satellite_updater
  \/ \E h \in Handlers :
       \/ stream_kml_enter(h)
       \/ stream_kml_clock(h)
       \/ stream_kml_rate(h)
       \/ stream_kml_store_heading(h)
       \/ stream_kml_store_tilt(h)
       \/ stream_kml_store_time(h)

SpecConc == Init /\ [][NextConc]_vars

\* ------------------------------------------------------------------ claims
\* the last response is the KML document of a /live.kml request
LiveView == resp.route = "/live.kml" /\ resp.status = "200"

\* the target the camera of the last response looks at
LookedAt == << resp.lookat[2], resp.lookat[1] >>

\* horizontal distance from the satellite sample the last request read to the
\* i-th target
TargetDistance(i) ==
  haversine_km(resp.sat[1], resp.sat[2], target_points[i][1], target_points[i][2])

\* horizontal distance from the satellite sample the last request read to the
\* target its camera looks at
LookedAtDistance == haversine_km(resp.sat[1], resp.sat[2], LookedAt[1], LookedAt[2])

\* C1: a /live.kml request that finds target_points empty fails with
\* EmptyTargetSetError, reported to the caller
C1_EmptyTargetSetReported ==
  (resp.route = "/live.kml" /\ target_points = << >>)
    => resp.status = "EmptyTargetSetError"

\* C2: a request whose interval delta_t = now - prev_time is zero or negative
\* fails and publishes no rate (any failure is accepted for InvalidIntervalError)
C2_NoRateFromInvalidInterval ==
  (resp.delta_t # None /\ resp.delta_t[1] <= 0)
    => (resp.status # "200" /\ resp.rates = << >>)

\* C3: the first request of a mode to reach the rate computation completes
\* normally and publishes no rate, whatever the other mode has served before
C3_FirstRequestPublishesNoRate ==
  resp.first => (resp.status = "200" /\ resp.rates = << >>)

\* C4: the previous observation and the previous timestamp a rate is computed
\* from were assigned by one request, of the mode of the request computing the
\* rate (requests are served one at a time here, so that request is the most
\* recent of its mode that recorded an observation)
C4_RateFromOnePreviousRequest ==
  resp.used # << >> => \A i \in 1..Len(resp.used) : resp.used[i] = resp.req

\* C5: whenever no request is in progress, the stored heading, tilt and time
\* were assigned by one request
C5_PoseFromOneRequest ==
  (\A h \in Handlers : pc[h] = "idle")
    => (written_by.heading = written_by.tilt /\ written_by.tilt = written_by.time)

\* C6: the camera looks at a target at minimal horizontal distance from the
\* satellite, and at the first such target of target_points
C6_NearestIsFirstMinimum ==
  LiveView =>
    \E i \in 1..Len(target_points) :
      /\ target_points[i] = LookedAt
      /\ \A j \in 1..Len(target_points) : TargetDistance(i) <= TargetDistance(j)
      /\ \A j \in 1..(i - 1) : TargetDistance(i) < TargetDistance(j)

\* a /live.kml request served with two different targets at the same, minimal
\* distance, the camera looking at the earlier one
C6_TieWitness ==
  /\ LiveView
  /\ \E i, j \in 1..Len(target_points) :
       /\ i < j
       /\ target_points[i] # target_points[j]
       /\ TargetDistance(i) = TargetDistance(j)
       /\ \A k \in 1..Len(target_points) : TargetDistance(i) <= TargetDistance(k)
       /\ LookedAt = target_points[i]

\* C7: the range of the LookAt element is at least 1 metre
C7_RangeAtLeastOne == LiveView => resp.lookat[3] >= 1

\* C8: the tilt of the LookAt element is 90 minus the elevation, clamped to
\* 0..90, the elevation being 90 when the horizontal distance is 0
C8_TiltClamped ==
  LiveView =>
    LET elevation == IF LookedAtDistance = 0 THEN 90
                     ELSE Atan2Deg(resp.sat[3], LookedAtDistance)
    IN  /\ 0 <= resp.lookat[4]
        /\ resp.lookat[4] <= 90
        /\ resp.lookat[4] = Max(0, Min(90, 90 - elevation))

\* a /live.kml request served with the satellite in orbit right above its
\* target: the camera looks straight down
C8_OverheadWitness ==
  /\ LiveView
  /\ resp.sat[3] > 0
  /\ LookedAtDistance = 0
  /\ resp.lookat[4] = 0

\* C9: with the satellite right above its target the tilt is 0, the heading is 0
\* and the range is the altitude in metres (the handler subtracts no offset),
\* floored at 1
C9_StraightDown ==
  (LiveView /\ LookedAtDistance = 0)
    => /\ resp.lookat[4] = 0
       /\ resp.lookat[5] = 0
       /\ resp.lookat[3] = Max(1, resp.sat[3] * 1000)

\* C10: after a /live.kml request has computed a heading and a tilt,
\* state.get_angles returns that heading and tilt
C10_AnglesAreLatestView ==
  LiveView => get_angles(state) = << resp.lookat[5], resp.lookat[4] >>

\* C11: the rates the shared state exposes are never negative
C11_RatesNonNegative == state.heading_rate >= 0 /\ state.tilt_rate >= 0

\* the unshifted track of the call that filled target_points
UnshiftedTrack == TrackFrom(generation.now, 0, steps_of(generation.window_minutes))

\* the magnitudes random.uniform can return for the calls of the model
ShiftMagnitudes == UNION { { 0, a.max_shift_km } : a \in ShiftArgs }

\* the point p and every point at a lateral offset of p, at plus or minus 90
\* degrees from the bearing of the track from q to p
LateralOffsets(q, p) ==
  { p } \cup
  UNION { { << p[1] - shift_deg(p[1], bearing_deg(q[1], q[2], p[1], p[2]), dir, km)[1],
               p[2] - shift_deg(p[1], bearing_deg(q[1], q[2], p[1], p[2]), dir, km)[2] >>,
            << p[1] + shift_deg(p[1], bearing_deg(q[1], q[2], p[1], p[2]), dir, km)[1],
               p[2] + shift_deg(p[1], bearing_deg(q[1], q[2], p[1], p[2]), dir, km)[2] >> } :
          dir \in { -90, 90 }, km \in ShiftMagnitudes }

\* C12: precompute_shifted_targets leaves the first point on the track, and puts
\* every later point on the track or at a lateral offset from it, at plus or
\* minus 90 degrees from the bearing from the previous unshifted point
C12_ShiftAcrossUnshiftedTrack ==
  generation.fn = "precompute_shifted_targets" =>
    /\ Len(target_points) = Len(UnshiftedTrack)
    /\ \A i \in 1..Len(target_points) :
         IF i = 1 THEN target_points[i] = UnshiftedTrack[i]
         ELSE target_points[i] \in LateralOffsets(UnshiftedTrack[i - 1], UnshiftedTrack[i])

\* C13: precompute_shifted_targets called with shift_prob = 0 fills
\* target_points with the points precompute_targets appends for the same start
\* time and window, whatever max_shift_km and the random source are
C13_NoShiftAtProbabilityZero ==
  (generation.fn = "precompute_shifted_targets" /\ generation.shift_prob = 0)
    => target_points = TrackFrom(generation.now, 0, steps_of(generation.window_minutes))

\* a call with shift_prob = 0 and max_shift_km > 0 that has appended points
\* after the first, each with a draw of the random source
C13_ZeroProbabilityWitness ==
  /\ generation.fn = "precompute_shifted_targets"
  /\ generation.shift_prob = 0
  /\ generation.max_shift_km > 0
  /\ Len(target_points) >= 3

\* the number of points of precompute_targets called with its default window
DefaultTrackLength == Len(TrackFrom(0, 0, steps_of(PREDICTION_DURATION_MIN)))

\* C14: after precompute_targets, target_points holds exactly
\* floor(window / interval) ground points, the i-th (from 0) sampled at
\* now + i * interval, and nothing of an earlier call; the default window of
\* 90 minutes gives 90 points
C14_TargetsOnFixedCadence ==
  /\ DefaultTrackLength = 90
  /\ generation.fn = "precompute_targets" =>
       /\ Len(target_points) = (generation.window_minutes * 60) \div TARGET_INTERVAL_S
       /\ \A i \in 1..Len(target_points) :
            /\ target_points[i] = latlon_of(generation.now + (i - 1) * TARGET_INTERVAL_S)
            /\ Len(target_points[i]) = 2

\* precompute_targets has filled target_points with a track of three points
C14_FullWindowWitness ==
  /\ generation.fn = "precompute_targets"
  /\ generation.window_minutes = 3
  /\ Len(target_points) = 3
  /\ target_points[3] = latlon_of(generation.now + 2 * TARGET_INTERVAL_S)

\* C15: a step either leaves positions_history alone or appends one sample at
\* its end, keeping every entry at its index; a step that serves a request
\* leaves it alone
C15_HistoryAppendOnly ==
  [][ /\ \/ positions_history' = positions_history
         \/ /\ Len(positions_history') = Len(positions_history) + 1
            /\ SubSeq(positions_history', 1, Len(positions_history)) = positions_history
      /\ resp' # resp => positions_history' = positions_history ]_vars

\* a request was served from the first sample and the updater has appended a
\* different sample since
C15_AppendAfterRequestWitness ==
  /\ LiveView
  /\ Len(positions_history) = 2
  /\ positions_history[1] = resp.sat
  /\ positions_history[2] # resp.sat

\* C16: the look-at target, range, tilt and heading of a /live.kml response are
\* a function of the satellite sample it read and of target_points alone
C16_ViewDependsOnInputsOnly ==
  LiveView =>
    LET v == camera_view(resp.sat, target_points)
    IN  resp.lookat = << v.tgt[2], v.tgt[1], v.range_m, v.tilt, v.heading >>

\* a /live.kml request served after an earlier one had stored a different
\* heading, and while the shared state held rates other than the initial ones
C16_AfterOtherPoseWitness ==
  /\ LiveView
  /\ resp.rates # << >>
  /\ resp.rates[1] > 0
  /\ Len(focus_angular_speeds) = 2

\* points around the origin: every compass direction occurs between two of them
CompassPoints == { -2, 0, 2 } \X { -4, 0, 4 }

\* the bearings between the points of CompassPoints
CompassBearings ==
  { bearing_deg(a[1], a[2], b[1], b[2]) : a \in CompassPoints, b \in CompassPoints }

\* C17: bearing_deg returns a heading h with 0 <= h < 360, between any two of
\* the compass points, from any satellite sample to any target, and in the
\* LookAt element of every /live.kml response
C17_BearingNormalised ==
  /\ CompassBearings \subseteq 0..359
  /\ \A sat \in SatPositions : \A i \in 1..Len(target_points) :
       bearing_deg(sat[1], sat[2], target_points[i][1], target_points[i][2]) \in 0..359
  /\ LiveView => resp.lookat[5] \in 0..359

\* a /live.kml response whose target lies to the west of the satellite: the raw
\* azimuth is negative and the heading is beyond 180
C17_WestwardWitness ==
  /\ LiveView
  /\ LookedAt[2] < resp.sat[2]
  /\ resp.lookat[5] > 180
  /\ { 0, 90, 180, 270 } \subseteq CompassBearings

\* C18: the pair state.get_angles returns is a camera orientation, with the
\* heading in [0, 360) and the tilt in [0, 90]
C18_AnglesValid ==
  /\ 0 <= get_angles(state)[1] /\ get_angles(state)[1] < 360
  /\ 0 <= get_angles(state)[2] /\ get_angles(state)[2] <= 90

\* C19: a KML request that finds fewer than 2 samples (/orbit.kml), or no
\* sample or no target (/live.kml), called directly or through /dynamic.kml,
\* is answered 204, and a step answered 204 leaves the stored pose and time,
\* the shared state, the recorded angular speeds, the position history and the
\* target set as they were
C19_NoContentChangesNothing ==
  [][ /\ (resp' # resp /\ resp'.route = "/orbit.kml" /\ Len(positions_history) < 2)
           => resp'.status = "204"
      /\ (resp' # resp /\ resp'.route = "/live.kml"
            /\ (positions_history = << >> \/ target_points = << >>))
           => resp'.status = "204"
      /\ (resp' # resp /\ resp'.status = "204")
           => UNCHANGED << prev_heading, prev_tilt, prev_time, prev_lat, prev_lon, state,
                           focus_angular_speeds, positions_history, target_points >> ]_vars

\* an /orbit.kml request answered 204 after a /live.kml request had stored a
\* pose and a time and recorded an angular speed
C19_NoContentAfterViewWitness ==
  /\ resp.route = "/orbit.kml"
  /\ resp.status = "204"
  /\ prev_heading # None
  /\ prev_time # None
  /\ focus_angular_speeds # << >>
=============================================================================
